---- MODULE Spec2Model ----
(***************************************************************************)
(* A model of rusty_snake (src/src/snake.rs): the game engine SnakeGame    *)
(* (new, update_state, add_apple), the Snake body operations, the key      *)
(* decoding conversions and the game loop `play` with its input relay.     *)
(***************************************************************************)
EXTENDS Integers, Sequences, FiniteSets

VARIABLES
    term_size,   \* what term.size() reports: [ht, wt]
    body,        \* snake.body, a VecDeque<BodySegment>: front is body[1]
    score,       \* SnakeGame.score
    open_space,  \* SnakeGame.open_space, a HashSet<TermPoint>
    apple,       \* SnakeGame.apple
    queue,       \* the mpsc channel between the relay thread and the loop
    user_in,     \* play's local user_in
    pc,          \* position of play: in its loop at "render" or "poll", or
                 \* left by a break ("exited"), by an Err returned through
                 \* a ? ("failed") or by a panic ("panicked")
    result,      \* the GameState the last update_state returned ("None"
                 \* before the first, "Panic" when it did not return)
    msg,         \* what play wrote on leaving the loop
    last_key,    \* history: the most recent key dequeued in the current window
    win_in,      \* history: user_in when the current window opened
    built_size   \* history: the size term.size() reported to SnakeGame::new

vars == <<term_size, body, score, open_space, apple, queue, user_in, pc,
          result, msg, last_key, win_in, built_size>>

game == <<body, score, open_space, apple>>
hist == <<last_key, win_in>>

----------------------------------------------------------------------------
(* Bounds of the model *)

\* the terminal sizes explored: 1..MaxDim rows and columns ...
MaxDim == 7
\* ... whose interior holds at most MaxCells cells
MaxCells == 11
\* rows and columns of the smaller terminals, on which the input handling
\* is explored
MaxSmall == 5
\* keys waiting in the channel where the input handling is explored (the
\* real channel is unbounded)
MaxQueue == 2
\* rows plus columns by which a resized terminal differs from the size it
\* had at construction
MaxResize == 1
\* keys waiting in the channel where whole games are explored
MaxWaiting == 1

----------------------------------------------------------------------------
(* Value types *)

Dir == {"Up", "Down", "Left", "Right"}

UserInput == {"Unknown", "Pause", "Up", "Down", "Left", "Right"}

\* console::Key, as far as From<Key> tells keys apart; "Char" stands for
\* every key of the `_` arm
Key == {"ArrowLeft", "ArrowRight", "ArrowUp", "ArrowDown", "Escape", "Char"}

GameState == {"Continue", "Over", "Win"}

TermPoint(row, col) == [row |-> row, col |-> col]

BodySegment(row, col, dir) == [pos |-> TermPoint(row, col), dir |-> dir]

is_opposite(self, other) ==
    \/ (self = "Up" /\ other = "Down") \/ (self = "Down" /\ other = "Up")
    \/ (self = "Left" /\ other = "Right") \/ (self = "Right" /\ other = "Left")

\* usize::MAX, the value 0 - 1 wraps to in a build without overflow checks.
\* It is 2^64 - 1 in the program; the model's integers have 31 bits, and the
\* model uses of it only that it is a usize above every terminal dimension
\* (term.size() is a pair of u16).
UsizeMax == 2147483647

\* usize - 1 and usize + 1 as a build without overflow checks computes them
Minus1(n) == IF n = 0 THEN UsizeMax ELSE n - 1
Plus1(n) == IF n = UsizeMax THEN 0 ELSE n + 1

\* self + rhs leaves the usize range: a build with overflow checks panics
\* here ("attempt to subtract with overflow", "attempt to add with overflow")
Overflows(self, rhs) ==
    \/ (rhs = "Up" /\ self.row = 0)
    \/ (rhs = "Down" /\ self.row = UsizeMax)
    \/ (rhs = "Left" /\ self.col = 0)
    \/ (rhs = "Right" /\ self.col = UsizeMax)

\* impl Add<Dir> for TermPoint, where it does not panic
Add(self, rhs) ==
    CASE rhs = "Up"    -> [row |-> Minus1(self.row), col |-> self.col]
      [] rhs = "Down"  -> [row |-> Plus1(self.row), col |-> self.col]
      [] rhs = "Left"  -> [row |-> self.row, col |-> Minus1(self.col)]
      [] rhs = "Right" -> [row |-> self.row, col |-> Plus1(self.col)]

\* impl From<Key> for UserInput
KeyToInput(value) ==
    CASE value = "ArrowLeft"  -> "Left"
      [] value = "ArrowRight" -> "Right"
      [] value = "ArrowUp"    -> "Up"
      [] value = "ArrowDown"  -> "Down"
      [] value = "Escape"     -> "Pause"
      [] OTHER                -> "Unknown"

\* impl From<UserInput> for Dir
InputToDir(value) ==
    CASE value = "Up"    -> "Up"
      [] value = "Down"  -> "Down"
      [] value = "Left"  -> "Left"
      [] value = "Right" -> "Right"
      [] OTHER           -> "Down"

\* impl From<Dir> for UserInput
DirToInput(value) == value

----------------------------------------------------------------------------
(* Snake *)

front(b) == b[1]
back(b) == b[Len(b)]

\* a plausible slip: the new head keeps the old heading
move_head_KeepDir(b, dir) ==
    LET new_head == [pos |-> Add(front(b).pos, dir), dir |-> front(b).dir]
    IN  <<new_head>> \o b

move_head(b, dir) ==
    LET new_head == [pos |-> Add(front(b).pos, dir), dir |-> dir]
    IN  <<new_head>> \o b

move_tail(b) == SubSeq(b, 1, Len(b) - 1)

move_body(b, dir) == move_tail(move_head(b, dir))

\* a plausible slip: push_front for push_back
extend_body_Front(b, new_tail) == <<new_tail>> \o b

extend_body(b, new_tail) == Append(b, new_tail)

\* the cells the segments of a body occupy
Cells(b) == {b[i].pos : i \in 1..Len(b)}

----------------------------------------------------------------------------
(* SnakeGame *)

\* SnakeGame::new: the snake, front first
InitBody == <<BodySegment(1, 1, "Right"), BodySegment(1, 2, "Right")>>

InitApple == TermPoint(1, 5)

\* the cells the two loops of SnakeGame::new insert: 1..width-1 x 1..height-1
Interior(size) ==
    {TermPoint(row, col) : row \in 1..(size.ht - 2), col \in 1..(size.wt - 2)}

InitOpenSpace(size) == Interior(size) \ Cells(InitBody)

\* a plausible slip: > for >=
EdgeCollision_Strict(head, size) ==
    \/ head.row = 0
    \/ head.row > size.ht - 1
    \/ head.col = 0
    \/ head.col > size.wt - 1

\* a plausible slip: the checks against 0 left out
EdgeCollision_NoZero(head, size) ==
    \/ head.row >= size.ht - 1
    \/ head.col >= size.wt - 1

\* update_state's edge collision check
EdgeCollision(head, size) ==
    \/ head.row = 0
    \/ head.row >= size.ht - 1
    \/ head.col = 0
    \/ head.col >= size.wt - 1

\* a plausible slip: the skip(1) left out
SelfCollision_NoSkip(b) == \E i \in 1..Len(b) : b[i].pos = front(b).pos

\* update_state's self collision check: the segments after the first
SelfCollision(b) == \E i \in 2..Len(b) : b[i].pos = front(b).pos

\* a plausible slip: the cell the tail left is not given back
Vacate_Drop(space, old_tail) == space

\* the set update_state leaves in open_space when the head has not eaten
Vacate(space, old_tail) == space \cup {old_tail.pos}

\* a plausible slip: a wrong increment
Scored_Slip(s) == s + 1

\* update_state's score increment for an eaten apple
Scored(s) == s + 100

\* add_apple: rand % len picks any element of open_space
add_apple(space) == space

\* What the build makes of the arithmetic of head + dir: "ok" when it stays
\* in range; out of range, a panic (overflow checks on, as in a debug build)
\* or the wrapped value (overflow checks off, as in a release build).
Arithmetic(head, dir) ==
    IF Overflows(head, dir) THEN {"panic", "wrap"} ELSE {"ok"}

\* update_state(input) where move_head does not panic: the next game fields
\* and the GameState returned
update_state_Returns(input) ==
    LET old_tail == back(body)
        moved    == move_body(body, InputToDir(input))
        head     == front(moved).pos
        space    == open_space \ {head}
    IN  IF EdgeCollision(head, term_size) \/ SelfCollision(moved)
        THEN /\ body' = moved
             /\ open_space' = space
             /\ result' = "Over"
             /\ UNCHANGED <<score, apple>>
        ELSE IF head = apple
        THEN IF space = {}
             THEN /\ body' = moved
                  /\ open_space' = space
                  /\ result' = "Win"
                  /\ UNCHANGED <<score, apple>>
             ELSE /\ body' = extend_body(moved, old_tail)
                  /\ score' = Scored(score)
                  /\ open_space' = space
                  /\ apple' \in add_apple(space)
                  /\ result' = "Continue"
        ELSE /\ body' = moved
             /\ open_space' = Vacate(space, old_tail)
             /\ result' = "Continue"
             /\ UNCHANGED <<score, apple>>

\* update_state(input): it returns, or the addition in move_head panics
\* before anything is written ("Panic" stands for no GameState returned)
update_state(input) ==
    \E outcome \in Arithmetic(front(body).pos, InputToDir(input)) :
        IF outcome = "panic"
        THEN result' = "Panic" /\ UNCHANGED game
        ELSE update_state_Returns(input)

----------------------------------------------------------------------------
(* play *)

\* a plausible slip: the guard left out
Guard_None(heading, pending) == pending

\* the direction-reversal guard of play, applied to the pending command
Guard(heading, pending) ==
    IF is_opposite(heading, InputToDir(pending))
    THEN DirToInput(heading)
    ELSE pending

\* what play writes for a GameState
Message(r) ==
    CASE r = "Over"     -> "Game Over"
      [] r = "Continue" -> "none"
      [] OTHER          -> "Uh oh"

\* a plausible slip: the fallback arm without its break
Exits_OverOnly(r) == r = "Over"

\* the arms of play's match that break out of the loop
Exits(r) == r # "Continue"

\* the terminal sizes explored
Sizes ==
    {s \in [ht : 1..MaxDim, wt : 1..MaxDim] :
        (s.ht - 2) * (s.wt - 2) <= MaxCells}

InitAt(size) ==
    /\ term_size = size
    /\ body = InitBody
    /\ score = 0
    /\ apple = InitApple
    /\ open_space = InitOpenSpace(size)
    /\ queue = <<>>
    /\ user_in = "Right"
    /\ pc = "render"
    /\ result = "None"
    /\ msg = "none"
    /\ last_key = "none"
    /\ win_in = "Right"
    /\ built_size = size

Init == \E size \in Sizes : InitAt(size)

\* the smaller of the terminal sizes explored
SmallSizes == {s \in Sizes : s.ht <= MaxSmall /\ s.wt <= MaxSmall}

InitSmall == \E size \in SmallSizes : InitAt(size)

\* play has been left: by a break, by an Err returned through a ?, or by a
\* panic. game_state is dropped, and the receiver input_rcv with it.
LoopLeft == pc \in {"exited", "failed", "panicked"}

\* what is in the channel after a step that leaves `rest` in it: nothing once
\* the receiver is dropped
Dropped(rest) == IF LoopLeft' THEN <<>> ELSE rest

\* the relay thread: read_key, then send (which enqueues nothing once the
\* receiver is dropped: it returns Err), while fewer than `cap` keys wait in
\* the channel
Relay(cap) ==
    /\ ~LoopLeft
    /\ Len(queue) < cap
    /\ \E key \in Key : queue' = Append(queue, key)
    /\ UNCHANGED <<term_size, built_size, game, user_in, pc, result, msg,
                   hist>>

RelaySend == Relay(MaxQueue)

\* what a call on the terminal returns
TerminalIO == {"ok", "err"}

\* game_state.render() returns Ok: the window opens after it
Render ==
    /\ pc = "render"
    /\ pc' = "poll"
    /\ win_in' = user_in
    /\ last_key' = "none"
    /\ UNCHANGED <<term_size, built_size, game, queue, user_in, result, msg>>

\* game_state.render() returns Err (clear_screen, move_cursor_to or write_all
\* has failed) and the ? returns it from play: no update, no message
RenderFails ==
    /\ pc = "render"
    /\ pc' = "failed"
    /\ queue' = Dropped(queue)
    /\ UNCHANGED <<term_size, built_size, game, user_in, result, msg, hist>>

\* a plausible slip: the Ok arm drops the key
Received_Drop(pending, key) == pending

\* the command try_recv's Ok arm leaves in user_in
Received(pending, key) == KeyToInput(key)

\* one iteration of the polling loop in which try_recv returns Ok(key)
\* (the Err arm changes nothing)
TryRecv ==
    /\ pc = "poll"
    /\ queue # <<>>
    /\ user_in' = Received(user_in, Head(queue))
    /\ queue' = Tail(queue)
    /\ last_key' = Head(queue)
    /\ UNCHANGED <<term_size, built_size, game, pc, result, msg, win_in>>

\* the rest of the loop body once the window has elapsed: the guard on the
\* pending command, update_state and the match on its result
\* (a panic in update_state ends the process; the write_all of an arm that
\* writes returns Ok, and the arm breaks, or Err, and the ? returns it from
\* play with nothing written)
LoopBody(pending) ==
    /\ pc = "poll"
    /\ user_in' = Guard(front(body).dir, pending)
    /\ update_state(user_in')
    /\ \E io \in IF result' \in {"Panic", "Continue"}
                 THEN {"ok"} ELSE TerminalIO :
         /\ pc' = IF result' = "Panic" THEN "panicked"
                  ELSE IF ~Exits(result') THEN "render"
                  ELSE IF io = "err" THEN "failed"
                  ELSE "exited"
         /\ msg' = IF result' = "Panic" \/ io = "err"
                   THEN msg ELSE Message(result')
    /\ UNCHANGED <<term_size, built_size, win_in>>

\* the window elapses
Tick ==
    /\ LoopBody(user_in)
    /\ queue' = Dropped(queue)
    /\ UNCHANGED last_key

Next == RelaySend \/ Render \/ RenderFails \/ TryRecv \/ Tick

\* the input handling of play, on the smaller terminals, with up to MaxQueue
\* keys waiting in the channel
Spec == InitSmall /\ [][Next]_vars

\* the relay with at most MaxWaiting keys waiting in the channel
RelaySendSoon == Relay(MaxWaiting)

GameNext == RelaySendSoon \/ Render \/ RenderFails \/ TryRecv \/ Tick

\* whole games, on every terminal size explored
GameSpec == Init /\ [][GameNext]_vars

\* rows plus columns between two sizes
Distance(s, t) ==
    (IF s.ht >= t.ht THEN s.ht - t.ht ELSE t.ht - s.ht)
    + (IF s.wt >= t.wt THEN s.wt - t.wt ELSE t.wt - s.wt)

\* the terminal is resized during a window: term.size(), which update_state
\* reads again at every call, reports another size from then on (a resize
\* during render is seen by the same call of update_state)
Resize ==
    /\ pc = "poll"
    /\ term_size' \in Sizes \ {term_size}
    /\ Distance(term_size', built_size) <= MaxResize
    /\ UNCHANGED <<built_size, game, queue, user_in, pc, result, msg, hist>>

ResizeNext ==
    RelaySendSoon \/ Render \/ RenderFails \/ TryRecv \/ Tick \/ Resize

ResizeSpec == InitSmall /\ [][ResizeNext]_vars

----------------------------------------------------------------------------
(* Vocabulary of the properties, stated apart from the code's own checks *)

\* the opposite of a direction
Reverse(d) ==
    CASE d = "Up" -> "Down" [] d = "Down" -> "Up"
      [] d = "Left" -> "Right" [] d = "Right" -> "Left"

\* a cell of the one-cell-thick border of the grid
OnBorder(p, size) ==
    \/ p.row = 0 \/ p.row = size.ht - 1
    \/ p.col = 0 \/ p.col = size.wt - 1

\* the loop takes the step after its window: the guard, update_state and the
\* match
Ticked == pc = "poll" /\ pc' # "poll"

\* an update has just returned: the loop is not inside a window
Updated == result # "None" /\ pc # "poll"

\* after an update: the head segment as it was before it, and the direction
\* the update was given (move_head stores it in the new head)
OldHead == body[2]
GivenDir == front(body).dir

\* a cell inside the border
Inside(p, size) ==
    /\ 1 <= p.row /\ p.row <= size.ht - 2
    /\ 1 <= p.col /\ p.col <= size.wt - 2

NoDuplicates(b) == \A i, j \in 1..Len(b) : b[i].pos = b[j].pos => i = j

----------------------------------------------------------------------------
(* C1 *)

\* C1: after every update that returns Continue, OpenSpace, the cells of the
\* snake and {Food} are pairwise disjoint.
C1_PairwiseDisjoint ==
    result = "Continue" =>
        /\ open_space \cap Cells(body) = {}
        /\ apple \notin open_space
        /\ apple \notin Cells(body)

----------------------------------------------------------------------------
(* C2 *)

\* C2: from the constructed state, where (1,3) is an interior cell and not
\* Food, the first update with Right returns Continue and leaves the head
\* at (1,3) and the tail at (1,2).
C2_FirstMoveRight ==
    [][(/\ result = "None" /\ pc = "poll" /\ pc' # "poll"
        /\ front(body').dir = "Right"
        /\ TermPoint(1, 3) \in Interior(term_size)
        /\ apple # TermPoint(1, 3))
       => (/\ result' = "Continue"
           /\ front(body').pos = TermPoint(1, 3)
           /\ back(body').pos = TermPoint(1, 2))]_vars

----------------------------------------------------------------------------
(* C3 *)

\* C3: when the last key dequeued in a window decodes to Unknown or Pause,
\* the direction given to update is the one it would have been given had no
\* key arrived in that window (the guard applied to the command pending when
\* the window opened).
C3_NonDirectionalIgnored ==
    (Updated /\ last_key \in {"Escape", "Char"})
        => GivenDir = InputToDir(Guard(OldHead.dir, win_in))

----------------------------------------------------------------------------
(* C4 *)

\* C4: update is never given the direction opposite to the head's heading;
\* when the pending command is the opposite one, the head advances as it
\* does when continuing straight.
C4_NoReversal ==
    [][(pc = "poll" /\ pc' # "poll") =>
          LET heading == front(body).dir
          IN  /\ front(body').dir # Reverse(heading)
              /\ InputToDir(user_in) = Reverse(heading)
                    => /\ front(body').dir = heading
                       /\ front(body').pos = Add(front(body).pos, heading)]_vars

\* the loop has replaced a pending Left by the heading Right, and the head
\* has advanced to the right
C4_Witness ==
    /\ Updated
    /\ last_key = "ArrowLeft"
    /\ OldHead.dir = "Right"
    /\ GivenDir = "Right"
    /\ front(body).pos = Add(OldHead.pos, "Right")

----------------------------------------------------------------------------
(* C5 *)

\* C5: an update whose new head is on a border cell returns Over, wherever
\* Food and the rest of the body are.
C5_BorderIsOver ==
    (result # "None" /\ OnBorder(front(body).pos, term_size))
        => result = "Over"

\* the head has run into the right border and into the bottom border
C5_Witness ==
    /\ result = "Over"
    /\ front(body).pos.col = term_size.wt - 1
    /\ front(body).pos.row >= 2
    /\ Len(body) >= 3

----------------------------------------------------------------------------
(* C6 *)

\* C6: when OpenSpace holds exactly one cell, an update that moves the head
\* onto Food returns Win.
C6_LastCellWins ==
    [][(/\ pc = "poll" /\ pc' # "poll"
        /\ Cardinality(open_space) = 1
        /\ front(body').pos = apple)
       => result' = "Win"]_vars

\* the head has moved onto Food, the one cell OpenSpace held, and update
\* has returned Win
C6_Witness ==
    /\ result = "Win"
    /\ front(body).pos = apple
    /\ open_space = {}
    /\ Len(body) >= 3

----------------------------------------------------------------------------
(* C7 *)

\* C7: whenever update returns Win, every interior cell of the grid is
\* occupied by a snake segment.
C7_WinFillsBoard ==
    result = "Win" => Interior(term_size) \subseteq Cells(body)

\* C7 as amended: whenever update returns Win, every interior cell other
\* than the one the tail has just left is occupied by a snake segment.
C7_WinFillsBoardButTail ==
    [][result' = "Win" =>
          Interior(term_size) \ Cells(body') \subseteq {back(body).pos}]_vars

\* update has returned Win and the cell the tail left is the only free one
C7_Witness ==
    /\ result = "Win"
    /\ Cardinality(Interior(term_size) \ Cells(body)) = 1

----------------------------------------------------------------------------
(* C8 *)

\* C8: after every update that returns Continue, eating or not, no two
\* segments of the snake are on the same cell.
C8_NoDuplicateSegments == result = "Continue" => NoDuplicates(body)

\* the snake has eaten and grown, and its segments are on distinct cells
C8_Witness ==
    /\ result = "Continue"
    /\ Len(body) >= 4
    /\ NoDuplicates(body)

----------------------------------------------------------------------------
(* C9 *)

\* C9, as claimed: update returns Over only if the new head is on (or beyond)
\* the border or on the cell of another segment, and Win only if the new head
\* is on Food and no interior cell of the grid is left open; every other
\* update returns Continue.
C9_NoSpuriousEnd ==
    /\ result = "Over" =>
          \/ ~Inside(front(body).pos, term_size)
          \/ \E i \in 2..Len(body) : body[i].pos = front(body).pos
    /\ result = "Win" =>
          /\ front(body).pos = apple
          /\ Interior(term_size) \ Cells(body) = {}
    /\ Updated => result \in GameState

\* C9, amended: update returns Over only if the new head is on (or beyond)
\* the border or on the cell of another segment, and Win only if the new head
\* is on Food and no interior cell is left open other than the one the tail
\* has just left; every other update returns Continue.
C9_NoSpuriousEndButTail ==
    [][Ticked =>
         /\ result' = "Over" =>
               \/ ~Inside(front(body').pos, term_size')
               \/ \E i \in 2..Len(body') : body'[i].pos = front(body').pos
         /\ result' = "Win" =>
               /\ front(body').pos = apple'
               /\ \A p \in Interior(term_size') :
                     p \in Cells(body') \/ p = back(body).pos
         /\ result' \in GameState]_vars

\* update has returned Over for a head inside the grid, on its own body
C9_Witness ==
    /\ result = "Over"
    /\ Inside(front(body).pos, term_size)
    /\ \E i \in 2..Len(body) : body[i].pos = front(body).pos

----------------------------------------------------------------------------
(* C10 *)

\* C10: the command a tick resolves is the guard applied to the most recent
\* key dequeued in its window, whatever was dequeued before it and whatever
\* still waits in the channel, and keys are dequeued in the order the relay
\* sent them: the channel changes only by a key joining at its end, by the
\* loop dequeuing the key at its front, or by the receiver being dropped.
C10_LastKeyWins ==
    [][/\ queue' # queue =>
            \/ \E key \in Key : queue' = Append(queue, key)
            \/ /\ queue # <<>> /\ queue' = Tail(queue)
               /\ last_key' = Head(queue)
            \/ LoopLeft' /\ queue' = <<>>
       /\ (Ticked /\ last_key # "none") =>
            /\ user_in' = Guard(front(body).dir, KeyToInput(last_key))
            /\ front(body').dir = InputToDir(user_in')]_vars

\* ArrowDown was the last key dequeued in the first window and the snake has
\* turned down, while a key sent after it still waits in the channel
C10_Witness ==
    /\ Updated
    /\ last_key = "ArrowDown"
    /\ queue = <<"ArrowUp">>
    /\ body = <<BodySegment(2, 1, "Down"), BodySegment(1, 1, "Right")>>

----------------------------------------------------------------------------
(* C11 *)

\* C11, as claimed: the loop is left exactly when update returns Over or Win;
\* after Continue the next step of the loop is a render, and once the loop is
\* left nothing is updated or rendered any more.
C11_ExitOnlyOnOverOrWin ==
    [][/\ LoopLeft' <=> result' \in {"Over", "Win"}
       /\ (Ticked /\ result' = "Continue") => pc' = "render"
       /\ LoopLeft => UNCHANGED <<game, pc, result, msg, user_in>>]_vars

\* C11, amended: the loop is left only when update returns Over or Win or
\* when render fails, and always when update returns Over or Win; after
\* Continue the next step of the loop is a render, which returns Ok before
\* any further update; once the loop is left nothing is updated or rendered
\* any more.
C11_ExitOnOverWinOrRenderError ==
    [][/\ LoopLeft' =>
            (result' \in {"Over", "Win"} \/ (pc = "render" /\ pc' = "failed")
             \/ LoopLeft)
       /\ (Ticked /\ result' \in {"Over", "Win"}) => LoopLeft'
       /\ (Ticked /\ result' = "Continue") => pc' = "render"
       /\ (pc # "poll" /\ pc' = "poll") => pc = "render"
       /\ LoopLeft => UNCHANGED <<game, pc, result, msg, user_in>>]_vars

\* the loop has exited on Win
C11_Witness == pc = "exited" /\ result = "Win"

----------------------------------------------------------------------------
(* C12 *)

\* C12: on a grid whose height or width is at most 2, or on which the
\* initial Food (1,5) is not an open interior cell, construction fails: no
\* update is ever executed.
C12_ConstructionValidates ==
    (\/ term_size.ht <= 2
     \/ term_size.wt <= 2
     \/ InitApple \notin InitOpenSpace(term_size))
        => result = "None"

----------------------------------------------------------------------------
(* C13 *)

\* C13: Score starts at 0 and changes only in an update that returns
\* Continue with the head on Food, by exactly 100; so Score is always
\* 100 * (length of the snake - 2).
C13_ScoreFollowsLength ==
    [][/\ score = 100 * (Len(body) - 2)
       /\ score' = 100 * (Len(body') - 2)
       /\ score' # score =>
             /\ pc = "poll" /\ pc' # "poll"
             /\ score' = score + 100
       /\ (pc = "poll" /\ pc' # "poll") =>
             (score' # score
                <=> (front(body').pos = apple /\ result' = "Continue"))]_vars

\* the snake has eaten twice
C13_Witness == score = 200 /\ Len(body) = 4 /\ result = "Continue"

----------------------------------------------------------------------------
(* C14 *)

\* C14: an update that returns Continue without eating keeps the length of
\* the snake; one that returns Continue after eating adds one segment at the
\* back, the tail as it was before the update, the other segments being
\* those of a plain move.
C14_MoveAndGrow ==
    [][(pc = "poll" /\ pc' # "poll" /\ result' = "Continue") =>
          LET n     == Len(body)
              plain == <<front(body')>> \o SubSeq(body, 1, n - 1)
          IN  /\ front(body').pos = Add(front(body).pos, front(body').dir)
              /\ IF front(body').pos = apple
                 THEN /\ Len(body') = n + 1
                      /\ back(body') = back(body)
                      /\ SubSeq(body', 1, n) = plain
                 ELSE /\ Len(body') = n
                      /\ body' = plain]_vars

\* the snake has just eaten the first apple and grown to three segments
C14_Witness ==
    /\ Updated /\ result = "Continue"
    /\ Len(body) = 3
    /\ front(body).pos = InitApple
    /\ score = 100

----------------------------------------------------------------------------
(* C15 *)

\* what play writes when update_state returns an error
FallbackMessage == Message("Err")

\* the messages play formats with the score
ExposesScore(m) == m = "Game Over"

\* C15: when update returns Win the loop ends with a message that exposes
\* the score and differs from the message of the error path.
C15_WinMessage ==
    result = "Win" => (ExposesScore(msg) /\ msg # FallbackMessage)

----------------------------------------------------------------------------
(* C16 *)

\* C16: after construction and after every update that returns Continue,
\* OpenSpace is exactly the set of interior cells no segment occupies.
C16_OpenSpaceExact ==
    result \in {"None", "Continue"}
        => open_space = Interior(term_size) \ Cells(body)

----------------------------------------------------------------------------
(* C17 *)

\* C17: whenever update relocates Food, the new Food cell is an interior
\* cell that no segment of the grown snake occupies.
C17_NewFoodIsFree ==
    [][apple' # apple =>
          (Inside(apple', term_size) /\ apple' \notin Cells(body'))]_vars

----------------------------------------------------------------------------
(* C18 *)

\* C18: whenever the loop is about to invoke update the head's row and
\* column are at least 1, so that head + dir stays in range for every dir:
\* update_state never panics, and no coordinate of the snake is a wrapped
\* value.
C18_NoUnderflow ==
    /\ ~LoopLeft =>
          /\ front(body).pos.row >= 1 /\ front(body).pos.col >= 1
          /\ \A dir \in Dir : ~Overflows(front(body).pos, dir)
    /\ pc # "panicked" /\ result # "Panic"
    /\ \A i \in 1..Len(body) :
          body[i].pos.row # UsizeMax /\ body[i].pos.col # UsizeMax

\* the head has advanced from row 1 to row 0, and update has returned Over
C18_Witness ==
    /\ result = "Over"
    /\ front(body).pos.row = 0
    /\ OldHead.pos.row = 1
    /\ Len(body) >= 3

----------------------------------------------------------------------------
(* C19 *)

\* C19: the bounds of every update's border check are those SnakeGame::new
\* used to fill OpenSpace, whatever size the terminal reports later: an
\* update returns Continue only for a head inside the grid as constructed,
\* and Over without a self collision only for a head outside it.
C19_BoundsFixed ==
    Updated =>
        /\ result = "Continue" => Inside(front(body).pos, built_size)
        /\ (result = "Over" /\ ~SelfCollision(body))
              => ~Inside(front(body).pos, built_size)

----------------------------------------------------------------------------
(* C20 *)

\* C20: when no key is dequeued in a window, update is given the head's
\* heading and the head continues straight; on the first tick that is Right.
C20_NoKeyGoesStraight ==
    (Updated /\ last_key = "none") =>
        /\ GivenDir = OldHead.dir
        /\ front(body).pos = Add(OldHead.pos, OldHead.dir)
        /\ InputToDir(user_in) = OldHead.dir

\* the snake had turned down, no key arrived in the next window and it has
\* gone on down
C20_Witness ==
    /\ Updated /\ last_key = "none"
    /\ Len(body) = 2
    /\ OldHead.dir = "Down" /\ GivenDir = "Down"
    /\ front(body).pos = TermPoint(3, 1)

====
